---- MODULE Spec2Model ----
(***************************************************************************)
(* Model of move_homedir.cpp: the substring replacement primitive Replace, *)
(* the recursive registry walk iter, the RegKey handle wrapper and main.   *)
(* Strings are sequences of one-character strings; positions are 0-based   *)
(* as in std::wstring.                                                     *)
(***************************************************************************)
EXTENDS Integers, Sequences, FiniteSets, TLC

VARIABLES
    rHaystack,     \* Replace: the haystack argument (const reference)
    rNeedle,       \* Replace: the needle argument
    rReplacement,  \* Replace: the replacement argument
    rValue,        \* Replace: the local copy `value`
    rPos,          \* Replace: the local `pos`
    rPc,           \* Replace: "idle" (not called), "loop" (inside while), "done" (returned)
    store,         \* the registry: node -> sequence of values [name, type, data]
    store0,        \* the registry as it was when main started (never changed)
    keys,          \* the RegKey objects constructed so far, by object id
    stack,         \* the call stack of iter: one frame per active call, top last
    ret,           \* the value the last iter call returned, until the caller reads it
    count,         \* main's `count`, passed by reference to every iter call
    mainPc,        \* main's position
    hive,          \* the hive main is working on (1..NumHives)
    exitCode,      \* main's return value
    reported,      \* the numbers printed by "Number of results" so far
    faults,        \* how many registry calls have failed so far
    trace,         \* every registry call and every call of iter so far, in order
    count0         \* what `count` was when main last called iter

replaceVars == <<rHaystack, rNeedle, rReplacement, rValue, rPos, rPc>>

walkVars == <<store, store0, keys, stack, ret, count, mainPc, hive, exitCode,
              reported, faults, trace, count0>>

vars == <<rHaystack, rNeedle, rReplacement, rValue, rPos, rPc,
          store, store0, keys, stack, ret, count, mainPc, hive, exitCode,
          reported, faults, trace, count0>>

----------------------------------------------------------------------------
(* Bounds of the pure-function inputs *)

\* longest haystack tried
MaxHaystack == 3
\* longest needle tried
MaxNeedle == 2
\* longest replacement tried
MaxReplacement == 2

Alphabet == {"a", "b", "c"}

Strings(n) == UNION {[1..k -> Alphabet] : k \in 0..n}

----------------------------------------------------------------------------
(* std::wstring primitives used by Replace *)

\* std::wstring::npos
NPOS == -1

\* needle occurs in value at 0-based position p
OccursAt(value, needle, p) ==
    /\ p >= 0
    /\ p + Len(needle) <= Len(value)
    /\ SubSeq(value, p + 1, p + Len(needle)) = needle

\* a buggy find that compares only the first character of the needle
FindFirstCharOnly(value, needle, pos) ==
    LET hits == {p \in pos..(Len(value) - 1) :
                    Len(needle) > 0 /\ value[p + 1] = needle[1]}
    IN IF hits = {} THEN NPOS ELSE CHOOSE p \in hits : \A q \in hits : p <= q

\* a buggy find that starts one position too late
FindSkipsFirst(value, needle, pos) ==
    LET hits == {p \in (pos + 1)..(Len(value) - Len(needle)) : OccursAt(value, needle, p)}
    IN IF hits = {} THEN NPOS ELSE CHOOSE p \in hits : \A q \in hits : p <= q

\* value.find(needle, pos): the least position >= pos where needle occurs, else npos
Find(value, needle, pos) ==
    LET hits == {p \in pos..(Len(value) - Len(needle)) : OccursAt(value, needle, p)}
    IN IF hits = {} THEN NPOS ELSE CHOOSE p \in hits : \A q \in hits : p <= q

\* value.replace(pos, n, replacement)
StrReplace(value, pos, n, replacement) ==
    SubSeq(value, 1, pos) \o replacement \o SubSeq(value, pos + n + 1, Len(value))

\* a buggy advance that rescans the inserted replacement
NextPosRescan(pos, replacement) == pos

\* a buggy advance that stops on the last character inserted
NextPosBack(pos, replacement) == pos + Len(replacement) - 1

\* pos += replacement.length()
NextPos(pos, replacement) == pos + Len(replacement)

\* the while loop of Replace from a given value and pos, run to its break
RECURSIVE ReplaceLoop(_, _, _, _)
ReplaceLoop(value, needle, replacement, pos) ==
    LET p == Find(value, needle, pos)
    IN IF p = NPOS
       THEN value
       ELSE ReplaceLoop(StrReplace(value, p, Len(needle), replacement),
                        needle, replacement, NextPos(p, replacement))

\* a buggy Replace that stops after the first substitution
ReplaceFirstOnly(haystack, needle, replacement) ==
    LET p == Find(haystack, needle, 0)
    IN IF p = NPOS THEN haystack ELSE StrReplace(haystack, p, Len(needle), replacement)

\* Replace(haystack, needle, replacement), for a non-empty needle
Replace(haystack, needle, replacement) == ReplaceLoop(haystack, needle, replacement, 0)

\* wcsstr(data, needle) != NULL
Contains(data, needle) == \E p \in 0..Len(data) : OccursAt(data, needle, p)

----------------------------------------------------------------------------
(* Replace as a state machine: one action per loop iteration *)

\* cap on the length of `value` in a run with an empty needle, where the
\* loop inserts the replacement for ever; other runs are not capped
MaxValueLen == 7

ReplaceInit ==
    /\ rHaystack \in Strings(MaxHaystack)
    /\ rNeedle \in Strings(MaxNeedle)
    /\ rReplacement \in Strings(MaxReplacement)
    /\ rValue = <<>>
    /\ rPos = 0
    /\ rPc = "idle"
    /\ store = <<>> /\ store0 = <<>> /\ keys = <<>> /\ stack = <<>>
    /\ ret = "none" /\ count = 0 /\ mainPc = "none" /\ hive = 0
    /\ exitCode = "none" /\ reported = <<>> /\ faults = 0 /\ trace = <<>>
    /\ count0 = 0

\* std::wstring value = haystack; size_t pos = 0;
ReplaceEnter ==
    /\ rPc = "idle"
    /\ rValue' = rHaystack
    /\ rPos' = 0
    /\ rPc' = "loop"
    /\ UNCHANGED walkVars
    /\ UNCHANGED <<rHaystack, rNeedle, rReplacement>>

\* an iteration that finds the needle: replace it and advance pos
ReplaceFound ==
    /\ rPc = "loop"
    /\ rNeedle = <<>> => Len(rValue) <= MaxValueLen
    /\ LET p == Find(rValue, rNeedle, rPos)
       IN /\ p # NPOS
          /\ rValue' = StrReplace(rValue, p, Len(rNeedle), rReplacement)
          /\ rPos' = NextPos(p, rReplacement)
    /\ UNCHANGED walkVars
    /\ UNCHANGED <<rHaystack, rNeedle, rReplacement, rPc>>

\* an iteration that finds nothing: break and return value
ReplaceBreak ==
    /\ rPc = "loop"
    /\ Find(rValue, rNeedle, rPos) = NPOS
    /\ rPc' = "done"
    /\ UNCHANGED walkVars
    /\ UNCHANGED <<rHaystack, rNeedle, rReplacement, rValue, rPos>>

ReplaceNext == ReplaceEnter \/ ReplaceFound \/ ReplaceBreak

SpecReplace == ReplaceInit /\ [][ReplaceNext]_vars

\* Replace is straight-line code on one thread: a call that can take its
\* next step takes it
SpecReplaceFair == SpecReplace /\ WF_vars(ReplaceNext)

----------------------------------------------------------------------------
(* Reference substitution: scan the ORIGINAL text left to right, emit the  *)
(* replacement for each leftmost non-overlapping occurrence and skip it.   *)

RECURSIVE RefSubst(_, _, _, _)
RefSubst(haystack, needle, replacement, i) ==
    IF i >= Len(haystack) THEN <<>>
    ELSE IF OccursAt(haystack, needle, i)
         THEN replacement \o RefSubst(haystack, needle, replacement, i + Len(needle))
         ELSE <<haystack[i + 1]>> \o RefSubst(haystack, needle, replacement, i + 1)

\* no non-empty prefix of x is a suffix of y
NoPrefixIsSuffix(x, y) ==
    \A k \in 1..Len(x) :
        k <= Len(y) => SubSeq(x, 1, k) # SubSeq(y, Len(y) - k + 1, Len(y))

\* replacement text cannot take part in an occurrence of needle
BorderFree(needle, replacement) ==
    /\ replacement # <<>>
    /\ ~Contains(needle, replacement)
    /\ ~Contains(replacement, needle)
    /\ NoPrefixIsSuffix(replacement, needle)
    /\ NoPrefixIsSuffix(needle, replacement)

\* C1 (as stated): for a non-empty needle and a replacement that does not
\* contain the needle, the string Replace returns has no occurrence of needle.
C1_NoOccurrenceLeft ==
    (rPc = "done" /\ rNeedle # <<>> /\ ~Contains(rReplacement, rNeedle))
        => ~Contains(rValue, rNeedle)

\* C1 (amended): for a non-empty needle and a non-empty replacement that
\* neither contains the needle, nor occurs in it, nor has a prefix or suffix
\* that is a suffix or prefix of the needle, the string Replace returns has no
\* occurrence of needle.
C1_NoOccurrenceLeftBorderFree ==
    (rPc = "done" /\ rNeedle # <<>> /\ BorderFree(rNeedle, rReplacement))
        => ~Contains(rValue, rNeedle)

C1_Witness ==
    /\ rPc = "done"
    /\ rNeedle = <<"a", "b">>
    /\ BorderFree(rNeedle, rReplacement)
    /\ rHaystack = <<"a", "a", "b">>
    /\ rValue = <<"a">> \o rReplacement

\* C2: for a non-empty needle Replace returns the reference substitution of
\* the original text, and the haystack argument is what it was at the call.
C2_MatchesReference ==
    (rPc = "done" /\ rNeedle # <<>>)
        => rValue = RefSubst(rHaystack, rNeedle, rReplacement, 0)

C2_Witness ==
    /\ rPc = "done"
    /\ rHaystack = <<"a", "a", "a">>
    /\ rNeedle = <<"a", "a">>
    /\ rReplacement = <<"b">>
    /\ rValue = <<"b", "a">>

\* C3: when the haystack has no occurrence of a non-empty needle, Replace
\* returns the haystack unchanged, whatever the replacement.
C3_FixedWhenAbsent ==
    (rPc = "done" /\ rNeedle # <<>> /\ ~Contains(rHaystack, rNeedle))
        => rValue = rHaystack

C3_Witness ==
    /\ rPc = "done"
    /\ rNeedle = <<"a", "b">>
    /\ rHaystack = <<"a", "c", "b">>
    /\ rReplacement = <<"c", "c">>
    /\ rValue = rHaystack

----------------------------------------------------------------------------
(* The registry, as the Win32 calls of the program see it *)

\* main opens five predefined keys, one after the other
NumHives == 5

Hives == 1..NumHives

\* the search and replacement literals
FROM_NAME == <<"U", "s", "e", "r", "s", "\\", "f", "r", "o", "m">>
TO_NAME == <<"U", "s", "e", "r", "s", "\\", "t", "o">>

\* The keys of the registry. Node k <= NumHives is the root of hive k.
\*   hive 1:  root -+- A -- A1        hive 2:  root -- A
\*                  +- B              hives 3, 4, 5: the root alone
Nodes == 1..9

Children(n) ==
    CASE n = 1 -> <<6, 7>>
      [] n = 6 -> <<8>>
      [] n = 2 -> <<9>>
      [] OTHER -> <<>>

NodeName(n) ==
    CASE n = 6 -> "A"
      [] n = 7 -> "B"
      [] n = 8 -> "A1"
      [] n = 9 -> "A"
      [] OTHER -> ""

Parent(n) ==
    CASE n = 6 -> 1
      [] n = 7 -> 1
      [] n = 8 -> 6
      [] n = 9 -> 2
      [] OTHER -> 0

HiveOf(n) == IF n <= NumHives THEN n ELSE IF n = 9 THEN 2 ELSE 1

RECURSIVE DepthOf(_)
DepthOf(n) == IF Parent(n) = 0 THEN 0 ELSE 1 + DepthOf(Parent(n))

\* the child of `parent` that RegOpenKeyEx resolves `name` to
ChildByName(parent, name) ==
    LET cs == Children(parent)
    IN CHOOSE c \in {cs[j] : j \in 1..Len(cs)} : NodeName(c) = name

\* value contents the initial registry draws from
C_Prefix == <<"C", ":", "\\">>
S_One == C_Prefix \o FROM_NAME \o <<"\\", "d", "a", "t", "a">>
S_Two == FROM_NAME \o <<"\\", "d", "o", "c", "s", "\\">> \o FROM_NAME \o <<"\\", "x">>
S_Near == C_Prefix \o <<"U", "s", "e", "r", "s", "\\", "f", "r", "o">>
S_Case == C_Prefix \o <<"u", "s", "e", "r", "s", "\\", "f", "r", "o", "m">>

Val(name, type, data) == [name |-> name, type |-> type, data |-> data]

\* a value slot may hold a matching string, a string that does not match,
\* or a non-string value whose payload spells the target
SlotChoices ==
    {<<"REG_SZ", S_One>>, <<"REG_SZ", S_Near>>, <<"REG_EXPAND_SZ", S_One>>}

\* the registry main starts on, with slot choice a for the value p of both
\* keys called A
InitialStore(a) ==
    [n \in Nodes |->
        CASE n = 1 -> <<Val("v", "REG_SZ", S_Case), Val("w", "REG_SZ", S_One)>>
          [] n = 6 -> <<Val("p", a[1], a[2]), Val("q", "REG_SZ", S_Two)>>
          [] n = 7 -> <<Val("p", "REG_SZ", FROM_NAME)>>
          [] n = 8 -> <<Val("q", "REG_SZ", S_One), Val("p", "REG_DWORD", <<"1">>)>>
          [] n = 9 -> <<Val("p", a[1], a[2])>>
          [] n = 3 -> <<Val("p", "REG_SZ", S_Near)>>
          [] n = 5 -> <<Val("p", "REG_EXPAND_SZ", S_One)>>
          [] OTHER -> <<>>]

\* position of the value called `name` in a node's value list, 0 if absent
ValueIndex(values, name) ==
    IF \E j \in 1..Len(values) : values[j].name = name
    THEN CHOOSE j \in 1..Len(values) : values[j].name = name
    ELSE 0

\* a buggy write that stores the data under the first value of the key
SetStringValueFirst(values, name, data) ==
    IF Len(values) = 0 THEN <<Val(name, "REG_SZ", data)>>
    ELSE [values EXCEPT ![1] = Val(values[1].name, "REG_SZ", data)]

\* RegSetValueEx(key, name, 0, REG_SZ, data): sets the type and data of the
\* value called `name`, creating it if the key has none of that name
SetStringValue(values, name, data) ==
    LET j == ValueIndex(values, name)
    IN IF j = 0 THEN Append(values, Val(name, "REG_SZ", data))
       ELSE [values EXCEPT ![j] = Val(name, "REG_SZ", data)]

\* one registry call: which call, through which RegKey object, on which
\* node, with which ordinal or name, what it returned, and the data written
Call(op, key, node, index, name, res, data) ==
    [op |-> op, key |-> key, node |-> node, index |-> index, name |-> name,
     res |-> res, data |-> data]

----------------------------------------------------------------------------
(* Failures of registry calls *)

\* how many registry calls may fail in one run
MaxFaults == 1
\* largest value an uninitialised count may hold when RegQueryInfoKey fails
MaxGarbage == 1

CanFail == faults < MaxFaults

\* what RegOpenKeyEx may return
OpenResults ==
    {"ERROR_SUCCESS"} \cup
    (IF CanFail THEN {"ERROR_FILE_NOT_FOUND", "ERROR_ACCESS_DENIED", "ERROR_OTHER"}
     ELSE {})

\* what a call that normally succeeds may return
CallResults == {"ERROR_SUCCESS"} \cup (IF CanFail THEN {"ERROR_OTHER"} ELSE {})

Failed(res) == IF res = "ERROR_SUCCESS" THEN 0 ELSE 1

----------------------------------------------------------------------------
(* class RegKey *)

\* the object RegKey(parent, name, depth) leaves behind: `res` is what
\* RegOpenKeyEx returned, sc and vc what getInfo left in the two counts
RegKeyObject(node, depth, res, sc, vc) ==
    [node |-> node, depth |-> depth, errorCode |-> res,
     isValidb |-> (res = "ERROR_SUCCESS"),
     subkeyCount |-> sc, valueCount |-> vc, alive |-> TRUE]

\* the counts getInfo may leave: those of the node when RegQueryInfoKey
\* succeeds; when it fails (its status is not looked at) the members stay
\* uninitialised and may hold anything
InfoResults(node) ==
    {<<"ERROR_SUCCESS", Len(Children(node)), Len(store[node])>>} \cup
    (IF CanFail
     THEN {<<"ERROR_OTHER", sc, vc>> : sc \in 0..MaxGarbage, vc \in 0..MaxGarbage}
     ELSE {})

\* a buggy destructor test that closes whatever the object holds
ShouldCloseAlways(k) == TRUE

\* ~RegKey: if (isValidb)
ShouldClose(k) == k.isValidb

\* the registry calls ~RegKey issues on object id
CloseCalls(id) ==
    IF ShouldClose(keys[id])
    THEN <<Call("Close", id, keys[id].node, 0, "", "ERROR_SUCCESS", <<>>)>>
    ELSE <<>>

\* a buggy release that leaves the object behind
DestroyedLeaked(ks, id) == ks

\* the objects after `delete` of object id
Destroyed(ks, id) == [ks EXCEPT ![id].alive = FALSE]

----------------------------------------------------------------------------
(* bool iter(RegKey *keyHolder, int& count)                                *)
(* The buffers keyName, valueName and data are allocated with new[] and    *)
(* released with scalar delete; TCHAR has no destructor, so the build      *)
(* frees the block either way and the buffers are not modelled. Console    *)
(* output is not modelled either, except the final count in main.          *)

\* a buggy loop step that skips an ordinal
NextOrdinalSkip(i) == i + 2

\* i++ of the two for loops
NextOrdinal(i) == i + 1

\* a buggy iter that starts with the loop over the values
FrameValuesFirst(key) ==
    [key |-> key, pc |-> "values", i |-> 0, sub |-> 0, name |-> "",
     data |-> <<>>, replaced |-> <<>>]

\* a call of iter: both loops are still to run, the one over the subkeys first
Frame(key) ==
    [key |-> key, pc |-> "keys", i |-> 0, sub |-> 0, name |-> "",
     data |-> <<>>, replaced |-> <<>>]

Top == stack[Len(stack)]

Holder == keys[Top.key]

WithTop(f) == [stack EXCEPT ![Len(stack)] = f]

Popped == SubSeq(stack, 1, Len(stack) - 1)

InIter(pc) == stack # <<>> /\ Top.pc = pc /\ ret = "none"

mainUnchanged == UNCHANGED <<mainPc, hive, exitCode, reported, store0, count0>>

\* RegEnumKeyEx / RegEnumValue at ordinal i of a key with n entries
EnumResults(i, n) == IF i < n THEN CallResults ELSE {"ERROR_NO_MORE_ITEMS"}

\* for (i < getSubkeyCount()): RegEnumKeyEx; on error return false
IterEnumKey ==
    /\ InIter("keys")
    /\ Top.i < Holder.subkeyCount
    /\ \E res \in EnumResults(Top.i, Len(Children(Holder.node))) :
          /\ trace' = Append(trace, Call("EnumKey", Top.key, Holder.node, Top.i, "", res, <<>>))
          /\ faults' = faults + (IF res = "ERROR_OTHER" THEN 1 ELSE 0)
          /\ IF res = "ERROR_SUCCESS"
             THEN /\ stack' = WithTop([Top EXCEPT !.pc = "open",
                                         !.name = NodeName(Children(Holder.node)[Top.i + 1])])
                  /\ ret' = ret
             ELSE /\ stack' = Popped
                  /\ ret' = "false"
    /\ UNCHANGED <<store, keys, count, replaceVars>>
    /\ mainUnchanged

\* the subkey loop is over: go on to the values
IterKeysDone ==
    /\ InIter("keys")
    /\ ~(Top.i < Holder.subkeyCount)
    /\ stack' = WithTop([Top EXCEPT !.pc = "values", !.i = 0])
    /\ UNCHANGED <<store, keys, ret, count, faults, trace, replaceVars>>
    /\ mainUnchanged

\* RegKey *subKey = new RegKey(keyHolder->getKey(), keyName, depth + 1)
IterOpenSubKey ==
    /\ InIter("open")
    /\ LET child == ChildByName(Holder.node, Top.name)
           id == Len(keys) + 1
       IN \E res \in OpenResults :
            IF res = "ERROR_SUCCESS"
            THEN \E info \in InfoResults(child) :
                   /\ keys' = Append(keys, RegKeyObject(child, Holder.depth + 1, res,
                                                         info[2], info[3]))
                   /\ trace' = trace \o
                        <<Call("Open", id, child, 0, Top.name, res, <<>>),
                          Call("QueryInfo", id, child, 0, "", info[1], <<>>)>>
                   /\ faults' = faults + Failed(info[1])
            ELSE /\ keys' = Append(keys, RegKeyObject(child, Holder.depth + 1, res, 0, 0))
                 /\ trace' = Append(trace, Call("Open", id, child, 0, Top.name, res, <<>>))
                 /\ faults' = faults + 1
    /\ stack' = WithTop([Top EXCEPT !.pc = "check", !.sub = Len(keys) + 1])
    /\ UNCHANGED <<store, ret, count, replaceVars>>
    /\ mainUnchanged

\* a buggy test that lets only not-found pass
IsFatalOpenDenied(k) == ~k.isValidb /\ k.errorCode # "ERROR_FILE_NOT_FOUND"

\* a buggy test that takes every failed open as fatal
IsFatalOpenAny(k) == ~k.isValidb

\* a buggy test that takes no failed open as fatal
IsFatalOpenNever(k) == FALSE

\* !isValid() && code != ERROR_FILE_NOT_FOUND, then code != ERROR_ACCESS_DENIED
IsFatalOpen(k) ==
    /\ ~k.isValidb
    /\ k.errorCode # "ERROR_FILE_NOT_FOUND"
    /\ k.errorCode # "ERROR_ACCESS_DENIED"

\* a fatal open error: delete subKey; return false
IterSubKeyFatal ==
    /\ InIter("check")
    /\ IsFatalOpen(keys[Top.sub])
    /\ trace' = trace \o CloseCalls(Top.sub)
    /\ keys' = Destroyed(keys, Top.sub)
    /\ stack' = Popped
    /\ ret' = "false"
    /\ UNCHANGED <<store, count, faults, replaceVars>>
    /\ mainUnchanged

\* a subkey that did not open and is passed over: delete subKey; i++
IterSubKeySkip ==
    /\ InIter("check")
    /\ ~IsFatalOpen(keys[Top.sub])
    /\ ~keys[Top.sub].isValidb
    /\ trace' = trace \o CloseCalls(Top.sub)
    /\ keys' = Destroyed(keys, Top.sub)
    /\ stack' = WithTop([Top EXCEPT !.pc = "keys", !.i = NextOrdinal(@), !.sub = 0])
    /\ UNCHANGED <<store, ret, count, faults, replaceVars>>
    /\ mainUnchanged

\* subKey->isValid() && !iter(subKey, count): the recursive call
IterCallSubKey ==
    /\ InIter("check")
    /\ ~IsFatalOpen(keys[Top.sub])
    /\ keys[Top.sub].isValidb
    /\ stack' = Append(WithTop([Top EXCEPT !.pc = "after"]), Frame(Top.sub))
    /\ trace' = Append(trace, Call("Iter", Top.sub, keys[Top.sub].node, 0, "",
                                   "ERROR_SUCCESS", <<>>))
    /\ UNCHANGED <<store, keys, ret, count, faults, replaceVars>>
    /\ mainUnchanged

\* the recursive call returned false: delete subKey; return false
IterSubKeyFailed ==
    /\ stack # <<>> /\ Top.pc = "after" /\ ret = "false"
    /\ trace' = trace \o CloseCalls(Top.sub)
    /\ keys' = Destroyed(keys, Top.sub)
    /\ stack' = Popped
    /\ ret' = "false"
    /\ UNCHANGED <<store, count, faults, replaceVars>>
    /\ mainUnchanged

\* the recursive call returned true: delete subKey; i++
IterSubKeyDone ==
    /\ stack # <<>> /\ Top.pc = "after" /\ ret = "true"
    /\ trace' = trace \o CloseCalls(Top.sub)
    /\ keys' = Destroyed(keys, Top.sub)
    /\ stack' = WithTop([Top EXCEPT !.pc = "keys", !.i = NextOrdinal(@), !.sub = 0])
    /\ ret' = "none"
    /\ UNCHANGED <<store, count, faults, replaceVars>>
    /\ mainUnchanged

\* for (i < getValueCount()): RegEnumValue; on error return false
IterEnumValue ==
    /\ InIter("values")
    /\ Top.i < Holder.valueCount
    /\ \E res \in EnumResults(Top.i, Len(store[Holder.node])) :
          /\ trace' = Append(trace, Call("EnumValue", Top.key, Holder.node, Top.i, "", res, <<>>))
          /\ faults' = faults + (IF res = "ERROR_OTHER" THEN 1 ELSE 0)
          /\ IF res = "ERROR_SUCCESS"
             THEN /\ stack' = WithTop([Top EXCEPT !.pc = "get",
                                         !.name = store[Holder.node][Top.i + 1].name])
                  /\ ret' = ret
             ELSE /\ stack' = Popped
                  /\ ret' = "false"
    /\ UNCHANGED <<store, keys, count, replaceVars>>
    /\ mainUnchanged

\* the value loop is over: return true
IterReturnTrue ==
    /\ InIter("values")
    /\ ~(Top.i < Holder.valueCount)
    /\ stack' = Popped
    /\ ret' = "true"
    /\ UNCHANGED <<store, keys, count, faults, trace, replaceVars>>
    /\ mainUnchanged

\* what RegGetValue(key, NULL, name, RRF_RT_REG_SZ, ...) may return for a value
GetResults(v) ==
    IF v.type = "REG_SZ" THEN CallResults
    ELSE {"ERROR_UNSUPPORTED_TYPE"} \cup (IF CanFail THEN {"ERROR_OTHER"} ELSE {})

\* a buggy test that lets no fetch error pass
IsBenignGetNever(res) == FALSE

\* a buggy test that lets every fetch error pass
IsBenignGetAny(res) == TRUE

\* errValue != ERROR_UNSUPPORTED_TYPE is fatal
IsBenignGet(res) == res = "ERROR_UNSUPPORTED_TYPE"

\* RegGetValue into `data`; a fatal error returns false, unsupported-type
\* falls through to the end of the loop body
IterGetValue ==
    /\ InIter("get")
    /\ LET v == store[Holder.node][ValueIndex(store[Holder.node], Top.name)]
       IN \E res \in GetResults(v) :
            /\ trace' = Append(trace, Call("Get", Top.key, Holder.node, Top.i, Top.name, res, <<>>))
            /\ faults' = faults + (IF res = "ERROR_OTHER" THEN 1 ELSE 0)
            /\ IF res = "ERROR_SUCCESS"
               THEN /\ stack' = WithTop([Top EXCEPT !.pc = "test", !.data = v.data])
                    /\ ret' = ret
               ELSE IF IsBenignGet(res)
               THEN /\ stack' = WithTop([Top EXCEPT !.pc = "values", !.i = NextOrdinal(@), !.name = ""])
                    /\ ret' = ret
               ELSE /\ stack' = Popped
                    /\ ret' = "false"
    /\ UNCHANGED <<store, keys, count, replaceVars>>
    /\ mainUnchanged

\* a buggy test that matches everything
MatchesAlways(data) == TRUE

\* wcsstr(data, FROM_NAME) != NULL
Matches(data) == Contains(data, FROM_NAME)

\* a buggy counter that counts occurrences instead of values
CountedPerOccurrence(c, data) ==
    c + Cardinality({p \in 0..Len(data) : OccursAt(data, FROM_NAME, p)})

\* count++
Counted(c, data) == c + 1

\* a buggy replacement that substitutes the first occurrence only
ReplacedFirstOnly(data) ==
    LET p == Find(data, FROM_NAME, 0)
    IN IF p = NPOS THEN data ELSE StrReplace(data, p, Len(FROM_NAME), TO_NAME)

\* replaced = Replace(replaced, FROM_NAME, TO_NAME)
Replaced(data) == Replace(data, FROM_NAME, TO_NAME)

\* a match: count++ and build the replacement
IterMatch ==
    /\ InIter("test")
    /\ Matches(Top.data)
    /\ count' = Counted(count, Top.data)
    /\ stack' = WithTop([Top EXCEPT !.pc = "set", !.replaced = Replaced(Top.data)])
    /\ UNCHANGED <<store, keys, ret, faults, trace, replaceVars>>
    /\ mainUnchanged

\* no match: nothing to do for this value
IterNoMatch ==
    /\ InIter("test")
    /\ ~Matches(Top.data)
    /\ stack' = WithTop([Top EXCEPT !.pc = "values", !.i = NextOrdinal(@), !.name = "", !.data = <<>>])
    /\ UNCHANGED <<store, keys, ret, count, faults, trace, replaceVars>>
    /\ mainUnchanged

\* RegSetValueEx(key, valueName, 0, REG_SZ, replaced); on error return false
IterSetValue ==
    /\ InIter("set")
    /\ \E res \in CallResults :
          /\ trace' = Append(trace, Call("Set", Top.key, Holder.node, Top.i, Top.name, res,
                                         Top.replaced))
          /\ faults' = faults + Failed(res)
          /\ IF res = "ERROR_SUCCESS"
             THEN /\ store' = [store EXCEPT ![Holder.node] =
                                  SetStringValue(@, Top.name, Top.replaced)]
                  /\ stack' = WithTop([Top EXCEPT !.pc = "values", !.i = NextOrdinal(@), !.name = "",
                                         !.data = <<>>, !.replaced = <<>>])
                  /\ ret' = ret
             ELSE /\ store' = store
                  /\ stack' = Popped
                  /\ ret' = "false"
    /\ UNCHANGED <<keys, count, replaceVars>>
    /\ mainUnchanged

IterNext ==
    \/ IterEnumKey \/ IterKeysDone \/ IterOpenSubKey
    \/ IterSubKeyFatal \/ IterSubKeySkip \/ IterCallSubKey
    \/ IterSubKeyFailed \/ IterSubKeyDone
    \/ IterEnumValue \/ IterReturnTrue \/ IterGetValue
    \/ IterMatch \/ IterNoMatch \/ IterSetValue

----------------------------------------------------------------------------
(* int main() *)

\* the RegKey objects that are locals of main: the roots opened so far
RootKeys == {id \in 1..Len(keys) : keys[id].depth = 0}

iterUnchanged == UNCHANGED <<stack, store, store0, count, count0, replaceVars>>

\* a buggy test that lets a root pass that a child would pass
AfterOpenRootLenient(k) == IF IsFatalOpen(k) THEN "return" ELSE "iter"

\* if (!root.isValid()) return -1; otherwise on to iter(&root, count)
AfterOpenRoot(k) == IF k.isValidb THEN "iter" ELSE "return"

\* RegKey root(HKEY_..., L"", 0); if (!root.isValid()) return -1;
MainOpenRoot ==
    /\ mainPc = "open"
    /\ LET id == Len(keys) + 1
       IN \E res \in OpenResults :
            IF res = "ERROR_SUCCESS"
            THEN \E info \in InfoResults(hive) :
                   /\ keys' = Append(keys, RegKeyObject(hive, 0, res, info[2], info[3]))
                   /\ trace' = trace \o
                        <<Call("Open", id, hive, 0, "", res, <<>>),
                          Call("QueryInfo", id, hive, 0, "", info[1], <<>>)>>
                   /\ faults' = faults + Failed(info[1])
                   /\ mainPc' = AfterOpenRoot(RegKeyObject(hive, 0, res, info[2], info[3]))
                   /\ exitCode' = exitCode
            ELSE /\ keys' = Append(keys, RegKeyObject(hive, 0, res, 0, 0))
                 /\ trace' = Append(trace, Call("Open", id, hive, 0, "", res, <<>>))
                 /\ faults' = faults + 1
                 /\ mainPc' = AfterOpenRoot(RegKeyObject(hive, 0, res, 0, 0))
                 /\ exitCode' = -1
    /\ UNCHANGED <<ret, hive, reported>>
    /\ iterUnchanged

\* iter(&root, count);
MainCallIter ==
    /\ mainPc = "iter"
    /\ stack' = <<Frame(Len(keys))>>
    /\ trace' = Append(trace, Call("Iter", Len(keys), keys[Len(keys)].node, 0, "",
                                   "ERROR_SUCCESS", <<>>))
    /\ count0' = count
    /\ mainPc' = "wait"
    /\ UNCHANGED <<store, store0, keys, ret, count, hive, exitCode, reported, faults,
                   replaceVars>>

\* a buggy main that gives up when a walk returns false
AfterIterChecked(r, k) ==
    IF r = "false" THEN "return" ELSE IF k < NumHives THEN "open" ELSE "report"

\* where main goes on after iter(&root, count) of hive k returned r: the
\* result is discarded, the next statement is the next root or the report
AfterIter(r, k) == IF k < NumHives THEN "open" ELSE "report"

\* iter returned (its result is not looked at): on to the next hive
MainAfterIter ==
    /\ mainPc = "wait"
    /\ stack = <<>>
    /\ ret # "none"
    /\ ret' = "none"
    /\ mainPc' = AfterIter(ret, hive)
    /\ hive' = IF hive < NumHives THEN hive + 1 ELSE hive
    /\ UNCHANGED <<store, store0, keys, stack, count, exitCode, reported, faults,
                   trace, count0, replaceVars>>

\* a buggy report that prints nothing
MainReportSilent ==
    /\ mainPc = "report"
    /\ mainPc' = "prompt"
    /\ UNCHANGED <<store, store0, keys, stack, ret, count, hive, exitCode, reported,
                   faults, trace, count0, replaceVars>>

\* std::wcout << "Number of results: " << count
MainReport ==
    /\ mainPc = "report"
    /\ reported' = Append(reported, count)
    /\ mainPc' = "prompt"
    /\ UNCHANGED <<store, store0, keys, stack, ret, count, hive, exitCode, faults,
                   trace, count0, replaceVars>>

\* do { prompt } while (std::wcin.get() != '\n'); return 0;
MainPrompt ==
    /\ mainPc = "prompt"
    /\ \E ch \in {"\n", "x"} :
          IF ch = "\n"
          THEN /\ mainPc' = "return"
               /\ exitCode' = 0
          ELSE UNCHANGED <<mainPc, exitCode>>
    /\ UNCHANGED <<store, store0, keys, stack, ret, count, hive, reported, faults,
                   trace, count0, replaceVars>>

RECURSIVE CloseAllAscending(_)
\* a buggy order of destruction: first constructed first
CloseAllAscending(ids) ==
    IF ids = {} THEN <<>>
    ELSE LET id == CHOOSE x \in ids : \A y \in ids : x <= y
         IN CloseCalls(id) \o CloseAllAscending(ids \ {id})

RECURSIVE CloseAll(_)
\* the Close calls of the destructors of main's locals, last constructed first
CloseAll(ids) ==
    IF ids = {} THEN <<>>
    ELSE LET id == CHOOSE x \in ids : \A y \in ids : y <= x
         IN CloseCalls(id) \o CloseAll(ids \ {id})

\* return from main: the destructors of the roots constructed so far run
MainReturn ==
    /\ mainPc = "return"
    /\ trace' = trace \o CloseAll(RootKeys)
    /\ keys' = [id \in 1..Len(keys) |->
                   IF id \in RootKeys THEN [keys[id] EXCEPT !.alive = FALSE] ELSE keys[id]]
    /\ mainPc' = "exited"
    /\ UNCHANGED <<store, store0, stack, ret, count, hive, exitCode, reported, faults,
                   count0, replaceVars>>

MainNext == MainOpenRoot \/ MainCallIter \/ MainAfterIter \/ MainReport \/ MainPrompt \/ MainReturn

Init ==
    /\ \E a \in SlotChoices :
          /\ store = InitialStore(a)
          /\ store0 = InitialStore(a)
    /\ keys = <<>>
    /\ stack = <<>>
    /\ ret = "none"
    /\ count = 0
    /\ mainPc = "open"
    /\ hive = 1
    /\ exitCode = "none"
    /\ reported = <<>>
    /\ faults = 0
    /\ trace = <<>>
    /\ count0 = 0
    /\ rHaystack = <<>> /\ rNeedle = <<>> /\ rReplacement = <<>>
    /\ rValue = <<>> /\ rPos = 0 /\ rPc = "idle"

Next == IterNext \/ MainNext

Spec == Init /\ [][Next]_vars

----------------------------------------------------------------------------
(* Reading the trace *)

TraceIdx == 1..Len(trace)

\* the calls of kind op made on node n
CallsOn(op, n) == {j \in TraceIdx : trace[j].op = op /\ trace[j].node = n}

\* the calls of kind op made on the value called name of node n
CallsOnValue(op, n, name) == {j \in CallsOn(op, n) : trace[j].name = name}

\* the Close calls made through RegKey object id
Closes(id) == {j \in TraceIdx : trace[j].op = "Close" /\ trace[j].key = id}

HiveNodes(k) == {n \in Nodes : HiveOf(n) = k}

RECURSIVE Subtree(_)
\* a node and everything below it
Subtree(n) ==
    {n} \cup UNION {Subtree(Children(n)[j]) : j \in 1..Len(Children(n))}

\* iter, called by main on the root of hive k, has just returned r
WalkReturned(k, r) == mainPc = "wait" /\ stack = <<>> /\ hive = k /\ ret = r

\* a call whose result is the ordinary one: success, or unsupported-type
\* from the fetch of a value that is not a string
Ordinary(c) ==
    \/ c.res = "ERROR_SUCCESS"
    \/ /\ c.op = "Get"
       /\ c.res = "ERROR_UNSUPPORTED_TYPE"
       /\ store0[c.node][ValueIndex(store0[c.node], c.name)].type # "REG_SZ"

\* no call made so far in hive k failed
NoFailure(k) == \A j \in TraceIdx : HiveOf(trace[j].node) = k => Ordinary(trace[j])

\* the open of a subkey that failed with not-found or access-denied
BenignOpen(c) ==
    /\ c.op = "Open"
    /\ c.node \notin Hives
    /\ c.res \in {"ERROR_FILE_NOT_FOUND", "ERROR_ACCESS_DENIED"}

\* a call inside a walk whose failure aborts the walk
Aborting(c) ==
    \/ c.op \in {"EnumKey", "EnumValue", "Set"} /\ c.res # "ERROR_SUCCESS"
    \/ /\ c.op = "Open" /\ c.node \notin Hives
       /\ c.res \notin {"ERROR_SUCCESS", "ERROR_FILE_NOT_FOUND", "ERROR_ACCESS_DENIED"}
    \/ c.op = "Get" /\ c.res \notin {"ERROR_SUCCESS", "ERROR_UNSUPPORTED_TYPE"}

\* a string value that contains the target
IsMatch(v) == v.type = "REG_SZ" /\ Contains(v.data, FROM_NAME)

\* the values of hive k that held the target when main started
MatchingValues(k) ==
    UNION {{<<n, j>> : j \in {i \in 1..Len(store0[n]) : IsMatch(store0[n][i])}} :
             n \in HiveNodes(k)}

----------------------------------------------------------------------------
(* Claims about the walk *)

\* C4: when the walk of a root returns success and no call of that walk
\* failed, every string value of the hive that held the target now holds
\* Replace(original, target, replacement) under the same name as a string,
\* every other value is as it was, and count has grown by the number of
\* values that held the target (one per value, not per occurrence).
C4_WalkRewritesMatches ==
    \A k \in Hives :
        (WalkReturned(k, "true") /\ NoFailure(k)) =>
            /\ \A n \in HiveNodes(k) :
                  /\ Len(store[n]) = Len(store0[n])
                  /\ \A j \in 1..Len(store0[n]) :
                        IF IsMatch(store0[n][j])
                        THEN store[n][j] =
                               Val(store0[n][j].name, "REG_SZ",
                                   Replace(store0[n][j].data, FROM_NAME, TO_NAME))
                        ELSE store[n][j] = store0[n][j]
            /\ count = count0 + Cardinality(MatchingValues(k))

\* the scenario of the specification: a root with one child A holding
\* p = "C:\Users\from\data" ends with one more match and "C:\Users\to\data"
C4_Witness ==
    /\ WalkReturned(2, "true") /\ NoFailure(2)
    /\ store0[9] = <<Val("p", "REG_SZ", S_One)>>
    /\ store[9] = <<Val("p", "REG_SZ", C_Prefix \o TO_NAME \o <<"\\", "d", "a", "t", "a">>)>>
    /\ count = count0 + 1

\* C5 (as stated): at the end of every walk count is the number of values
\* whose rewritten content was successfully written back.
C5_CountIsSuccessfulWrites ==
    (mainPc = "wait" /\ stack = <<>> /\ ret # "none") =>
        count = Cardinality({j \in TraceIdx :
                               trace[j].op = "Set" /\ trace[j].res = "ERROR_SUCCESS"})

\* C5 (amended): count is incremented once per value found to contain the
\* target, before the write is attempted: at the end of every walk count is
\* the number of writes attempted, successful or not.
C5_CountIsAttemptedWrites ==
    (mainPc = "wait" /\ stack = <<>> /\ ret # "none") =>
        count = Cardinality({j \in TraceIdx : trace[j].op = "Set"})

C5_Witness ==
    /\ WalkReturned(1, "false")
    /\ \E j \in TraceIdx : trace[j].op = "Set" /\ trace[j].res = "ERROR_OTHER"
    /\ \E j \in TraceIdx : trace[j].op = "Set" /\ trace[j].res = "ERROR_SUCCESS"
    /\ count = 1 + Cardinality({j \in TraceIdx :
                                  trace[j].op = "Set" /\ trace[j].res = "ERROR_SUCCESS"})

\* the number of writes attempted so far
SetCalls == Cardinality({j \in TraceIdx : trace[j].op = "Set"})

\* C6: when the open of an enumerated child fails with access-denied or
\* not-found, nothing else is ever done to the child or below it and its
\* values stay as they were; until the next call is made nothing has
\* returned false, count is untouched and the parent's frame moves to its
\* next child ordinal and then to its values; the next call is the parent's
\* next child ordinal or, after the last child, the parent's first value;
\* and a walk whose only failures are such opens returns success.
C6_BenignOpenIsSkipped ==
    /\ \A j \in TraceIdx :
          BenignOpen(trace[j]) =>
             LET c == trace[j].node
                 e == trace[j - 1]
                 holder == keys[e.key]
             IN /\ e.op = "EnumKey" /\ e.node = Parent(c)
                /\ \A j2 \in TraceIdx \ {j} : trace[j2].node \notin Subtree(c)
                /\ \A n \in Subtree(c) : store[n] = store0[n]
                /\ j = Len(trace) =>
                      /\ ret # "false"
                      /\ count = SetCalls
                      /\ (stack # <<>> /\ Top.key = e.key /\ ret = "none") =>
                            \/ Top.pc = "check" /\ Top.i = e.index
                            \/ Top.pc = "keys" /\ Top.i = e.index + 1
                            \/ Top.pc = "values" /\ Top.i = 0
                /\ j < Len(trace) =>
                      IF e.index + 1 < holder.subkeyCount
                      THEN /\ trace[j + 1].op = "EnumKey"
                           /\ trace[j + 1].key = e.key
                           /\ trace[j + 1].index = e.index + 1
                      ELSE holder.valueCount > 0 =>
                           /\ trace[j + 1].op = "EnumValue"
                           /\ trace[j + 1].key = e.key
                           /\ trace[j + 1].index = 0
    /\ \A k \in Hives :
          (/\ mainPc = "wait" /\ stack = <<>> /\ hive = k /\ ret # "none"
           /\ \A j \in TraceIdx :
                 HiveOf(trace[j].node) = k => Ordinary(trace[j]) \/ BenignOpen(trace[j]))
            => ret = "true"

\* child A of root 1 is denied; B and the root's own values are still done
C6_Witness ==
    /\ WalkReturned(1, "true")
    /\ \E j \in CallsOn("Open", 6) : trace[j].res = "ERROR_ACCESS_DENIED"
    /\ CallsOn("Iter", 7) # {}
    /\ CallsOn("Set", 1) # {}

\* C7: after a call that aborts a walk (a failed enumeration, a child open
\* failing with a code other than not-found and access-denied, a fetch
\* failing with a code other than unsupported-type, a failed write) the only
\* calls ever made in that hive are Close calls, iter returns false at every
\* level up to main (a failed open is first looked at by the frame that
\* made it), and every value written before still holds what was written.
C7_AbortUnwinds ==
    /\ \A j \in TraceIdx :
          Aborting(trace[j]) =>
             \A j2 \in TraceIdx :
                (j2 > j /\ HiveOf(trace[j2].node) = HiveOf(trace[j].node))
                    => trace[j2].op = "Close"
    /\ \A j \in TraceIdx :
          (mainPc = "wait" /\ Aborting(trace[j]) /\ HiveOf(trace[j].node) = hive) =>
             \/ ret = "false"
             \/ /\ trace[j].op = "Open" /\ j = Len(trace)
                /\ stack # <<>> /\ Top.pc = "check" /\ ret = "none"
    /\ \A j \in TraceIdx :
          (trace[j].op = "Set" /\ trace[j].res = "ERROR_SUCCESS") =>
             LET vs == store[trace[j].node]
             IN /\ ValueIndex(vs, trace[j].name) # 0
                /\ vs[ValueIndex(vs, trace[j].name)] =
                      Val(trace[j].name, "REG_SZ", trace[j].data)

\* an error two levels down, after a value was rewritten there
C7_Witness ==
    /\ WalkReturned(1, "false")
    /\ \E j \in TraceIdx :
          /\ Aborting(trace[j]) /\ trace[j].node = 8
          /\ \E j1 \in 1..(j - 1) : trace[j1].op = "Set" /\ trace[j1].res = "ERROR_SUCCESS"
          /\ \E j2 \in (j + 1)..Len(trace) : trace[j2].op = "Close" /\ trace[j2].node = 6

\* C8: a value whose fetch returns unsupported-type is never written and
\* keeps its type and payload; until the next call is made nothing has
\* returned false, count is untouched and the frame stands at the next
\* value ordinal; when the key has a further value the next call enumerates
\* it.
C8_UnsupportedTypeIsSkipped ==
    \A j \in TraceIdx :
        (trace[j].op = "Get" /\ trace[j].res = "ERROR_UNSUPPORTED_TYPE") =>
           LET c == trace[j]
               idx == ValueIndex(store0[c.node], c.name)
           IN /\ CallsOnValue("Set", c.node, c.name) = {}
              /\ idx # 0
              /\ store[c.node][idx] = store0[c.node][idx]
              /\ j = Len(trace) =>
                    /\ ret # "false"
                    /\ count = SetCalls
                    /\ (stack # <<>> /\ Top.key = c.key /\ ret = "none") =>
                          Top.pc = "values" /\ Top.i = c.index + 1
              /\ (j < Len(trace) /\ c.index + 1 < keys[c.key].valueCount) =>
                    /\ trace[j + 1].op = "EnumValue"
                    /\ trace[j + 1].key = c.key
                    /\ trace[j + 1].index = c.index + 1

\* the REG_EXPAND_SZ value of A, which spells the target, is passed over
\* and the value after it rewritten
C8_Witness ==
    /\ WalkReturned(1, "true")
    /\ \E j \in CallsOnValue("Get", 6, "p") : trace[j].res = "ERROR_UNSUPPORTED_TYPE"
    /\ store[6][1] = Val("p", "REG_EXPAND_SZ", S_One)
    /\ \E j \in CallsOnValue("Set", 6, "q") : trace[j].res = "ERROR_SUCCESS"

\* the successful calls of kind op on node n
Succeeded(op, n) == {j \in CallsOn(op, n) : trace[j].res = "ERROR_SUCCESS"}

\* node n was opened and walked once and each of its values fetched once
VisitedOnce(n) ==
    /\ Cardinality(Succeeded("Open", n)) = 1
    /\ Cardinality(CallsOn("Iter", n)) = 1
    /\ \A i \in 1..Len(store0[n]) :
          Cardinality(CallsOnValue("Get", n, store0[n][i].name)) = 1

\* C9 (as stated): in a walk of a root that returns success every node under
\* the root is opened and walked exactly once and every value fetched once.
C9_EveryNodeOnce ==
    \A k \in Hives :
        WalkReturned(k, "true") => \A n \in HiveNodes(k) : VisitedOnce(n)

\* C9 (amended): when the walk of a root returns, no node under the root
\* was opened or walked twice and no value fetched or written twice, also
\* where values of the node being enumerated were rewritten; and a walk in
\* which no call failed returns success having opened and walked every node
\* under the root once and fetched every value once.
C9_AtMostOnceAndAllWhenNoFailure ==
    \A k \in Hives :
        (mainPc = "wait" /\ stack = <<>> /\ hive = k /\ ret # "none") =>
            /\ \A n \in HiveNodes(k) :
                  /\ Cardinality(Succeeded("Open", n)) <= 1
                  /\ Cardinality(CallsOn("Iter", n)) <= 1
                  /\ \A i \in 1..Len(store0[n]) :
                        /\ Cardinality(CallsOnValue("Get", n, store0[n][i].name)) <= 1
                        /\ Cardinality(CallsOnValue("Set", n, store0[n][i].name)) <= 1
            /\ NoFailure(k) =>
                  /\ ret = "true"
                  /\ \A n \in HiveNodes(k) : VisitedOnce(n)

\* the first value of A is rewritten and its second value is still fetched
C9_Witness ==
    /\ WalkReturned(1, "true") /\ NoFailure(1)
    /\ Succeeded("Set", 6) # {}
    /\ \E j \in CallsOnValue("Set", 6, "p") : \E j2 \in CallsOnValue("Get", 6, "q") : j < j2
    /\ \A n \in HiveNodes(1) : VisitedOnce(n)

\* the frames of iter now on the stack
Frames == {stack[d] : d \in 1..Len(stack)}

\* C10: a RegKey whose open succeeded is closed once, by the frame that
\* created it and on whatever path that frame is left; one whose open failed
\* is never closed; no RegKey is closed twice; when the walk of a root
\* returns, no subkey opened during it is still open; when main has
\* returned, every RegKey that opened has been closed once.
C10_HandlesReleasedOnce ==
    /\ \A id \in 1..Len(keys) :
          /\ Cardinality(Closes(id)) <= 1
          /\ ~keys[id].isValidb => Closes(id) = {}
          /\ keys[id].depth >= 1 =>
                IF \E f \in Frames : f.sub = id
                THEN keys[id].alive /\ Closes(id) = {}
                ELSE ~keys[id].alive /\ (keys[id].isValidb => Cardinality(Closes(id)) = 1)
    /\ (mainPc = "wait" /\ stack = <<>>) =>
          \A id \in 1..Len(keys) :
             (keys[id].depth >= 1 /\ keys[id].isValidb) =>
                 /\ Cardinality(Closes(id)) = 1
                 /\ \A j \in CallsOn("Open", keys[id].node) : \A j2 \in Closes(id) : j < j2
    /\ mainPc = "exited" =>
          \A id \in 1..Len(keys) :
             ~keys[id].alive /\ (keys[id].isValidb => Cardinality(Closes(id)) = 1)

\* a walk that failed two levels down closed A1 and then A; another run
\* passes over a child that did not open
C10_Witness ==
    /\ WalkReturned(1, "false")
    /\ \E a \in 1..Len(keys), b \in 1..Len(keys) :
          /\ keys[a].node = 6 /\ keys[b].node = 8
          /\ keys[a].isValidb /\ keys[b].isValidb
          /\ \E ja \in Closes(a), jb \in Closes(b) : jb < ja
          /\ \E j \in CallsOn("EnumValue", 8) : Aborting(trace[j])

\* a child whose open failed was destroyed without a Close
C10_WitnessFailedOpen ==
    /\ WalkReturned(1, "true")
    /\ \E id \in 1..Len(keys) :
          /\ keys[id].depth >= 1 /\ ~keys[id].isValidb /\ ~keys[id].alive
          /\ Closes(id) = {}

----------------------------------------------------------------------------
(* Claims about handles, the order of the walk and the run of main *)

\* the RegKey objects of depth >= 1 that hold an open handle
OpenBelowRoot ==
    {id \in 1..Len(keys) : keys[id].alive /\ keys[id].isValidb /\ keys[id].depth >= 1}

\* the successful opens of keys below a root
SubKeyOpens ==
    {j \in TraceIdx : /\ trace[j].op = "Open" /\ trace[j].res = "ERROR_SUCCESS"
                      /\ keys[trace[j].key].depth >= 1}

\* C11: during a walk no two open handles below the root have the same
\* depth; the handles open below the root are exactly the children held by
\* the frames of iter, which form one chain that starts at the root of the
\* hive being walked: each frame walks the child its caller holds, the
\* child is a child node of the caller's node and its depth is the caller's
\* depth plus one; and a child handle is closed before the next handle of
\* the same depth is opened.
C11_OneHandlePerDepth ==
    /\ LET open == OpenBelowRoot
       IN \A a \in open : \A b \in open : keys[a].depth = keys[b].depth => a = b
    /\ OpenBelowRoot =
          {stack[d].sub : d \in {e \in 1..Len(stack) :
                                   stack[e].sub # 0 /\ keys[stack[e].sub].isValidb}}
    /\ stack # <<>> =>
          /\ keys[stack[1].key].node = hive
          /\ keys[stack[1].key].alive /\ keys[stack[1].key].isValidb
    /\ \A d \in 1..Len(stack) :
          /\ keys[stack[d].key].depth = d - 1
          /\ d < Len(stack) => stack[d + 1].key = stack[d].sub
          /\ stack[d].sub # 0 =>
                /\ keys[stack[d].sub].depth = keys[stack[d].key].depth + 1
                /\ Parent(keys[stack[d].sub].node) = keys[stack[d].key].node
    /\ LET opens == SubKeyOpens
       IN \A j \in opens : \A j2 \in opens :
             (j < j2 /\ keys[trace[j].key].depth = keys[trace[j2].key].depth) =>
                 \E jc \in (j + 1)..(j2 - 1) :
                     trace[jc].op = "Close" /\ trace[jc].key = trace[j].key

\* the second child of root 1 is being walked: the handle of the first
\* child and the one below it were opened and are closed again
C11_Witness ==
    /\ Len(stack) = 2
    /\ keys[Top.key].node = 7
    /\ OpenBelowRoot = {Top.key}
    /\ \E a \in 1..Len(keys) : \E b \in 1..Len(keys) :
          /\ keys[a].node = 6 /\ keys[b].node = 8
          /\ Closes(a) # {} /\ Closes(b) # {}

\* main has called iter on the root of hive k
WalkStarted(k) == hive > k \/ (hive = k /\ mainPc \notin {"open", "iter"})

\* the writes attempted before call j
SetCallsBefore(j) == Cardinality({j2 \in 1..(j - 1) : trace[j2].op = "Set"})

\* C12: a walk that returns false is followed by the open of the next root
\* (after the last hive, by the report), never by the end of the run, and
\* leaves count as it is; every later hive whose root opened and that main
\* has got to was walked once, its walk started after the failure at child
\* ordinal 0 (at value ordinal 0 when the root has no child) and with the
\* matches counted in all earlier hives, the failed one included.
C12_FailedWalkDoesNotStopRun ==
    /\ [][(mainPc = "wait" /\ stack = <<>> /\ ret = "false") =>
             /\ mainPc' = (IF hive < NumHives THEN "open" ELSE "report")
             /\ hive' = (IF hive < NumHives THEN hive + 1 ELSE hive)
             /\ count' = count /\ exitCode' = exitCode]_vars
    /\ [](\A j \in TraceIdx : \A k2 \in Hives :
             (/\ Aborting(trace[j])
              /\ HiveOf(trace[j].node) < k2
              /\ Succeeded("Open", k2) # {}
              /\ WalkStarted(k2)) =>
                 /\ Cardinality(CallsOn("Iter", k2)) = 1
                 /\ \A ji \in CallsOn("Iter", k2) :
                       /\ j < ji
                       /\ (hive = k2 /\ mainPc = "wait") =>
                             /\ count0 = SetCallsBefore(ji)
                             /\ count >= count0
                       /\ (ji < Len(trace) /\ keys[trace[ji].key].subkeyCount > 0) =>
                             /\ trace[ji + 1].op = "EnumKey"
                             /\ trace[ji + 1].key = trace[ji].key
                             /\ trace[ji + 1].index = 0
                       /\ (/\ ji < Len(trace)
                           /\ keys[trace[ji].key].subkeyCount = 0
                           /\ keys[trace[ji].key].valueCount > 0) =>
                             /\ trace[ji + 1].op = "EnumValue"
                             /\ trace[ji + 1].key = trace[ji].key
                             /\ trace[ji + 1].index = 0)

\* the walk of hive 1 failed at a write after one value was rewritten; the
\* walk of hive 2 went down to its child and rewrote the value there
C12_Witness ==
    /\ WalkReturned(2, "true")
    /\ \E j \in TraceIdx :
          Aborting(trace[j]) /\ trace[j].op = "Set" /\ HiveOf(trace[j].node) = 1
    /\ count0 = 2
    /\ Succeeded("Set", 9) # {}
    /\ count = 3

\* the opens of roots that failed
FailedRootOpens ==
    {j \in TraceIdx : /\ trace[j].op = "Open" /\ trace[j].node \in Hives
                      /\ trace[j].res # "ERROR_SUCCESS"}

\* C13 (as stated): when the process has exited, the total count has been
\* reported, after full completion and after a root failed to open alike;
\* the exit status is 0 on full completion and -1 when a root failed to
\* open.
C13_CountAlwaysReported ==
    mainPc = "exited" =>
        /\ reported = <<count>>
        /\ exitCode = (IF FailedRootOpens = {} THEN 0 ELSE -1)

\* C13 (amended): the count is reported only on full completion. When all
\* five roots opened, main has walked all five, reported the final count
\* once before the prompt and exits with 0; when a root failed to open main
\* exits with -1 and has reported nothing, whatever was counted in the
\* hives walked before.
C13_CountReportedOnFullCompletion ==
    /\ mainPc \in {"prompt", "return", "exited"} =>
          IF FailedRootOpens = {}
          THEN /\ reported = <<count>>
               /\ \A k \in Hives : Cardinality(CallsOn("Iter", k)) = 1
               /\ count = SetCalls
          ELSE reported = <<>>
    /\ mainPc \in {"return", "exited"} =>
          exitCode = (IF FailedRootOpens = {} THEN 0 ELSE -1)
    /\ mainPc \notin {"prompt", "return", "exited"} => reported = <<>>

\* the third root failed to open after matches were counted and written in
\* the first two hives: the process is gone with -1 and no report
C13_Witness ==
    /\ mainPc = "exited"
    /\ exitCode = -1
    /\ hive = 3 /\ FailedRootOpens # {}
    /\ Succeeded("Set", 6) # {} /\ Succeeded("Set", 9) # {}
    /\ count = SetCalls /\ count > 0
    /\ reported = <<>>

\* the opens of roots, failed or not
RootOpens == {j \in TraceIdx : trace[j].op = "Open" /\ trace[j].node \in Hives}

\* C14: roots are opened one at a time in the order of the hives, each
\* after every call of the hives before it; once the open of a root has
\* failed, with whatever code, main is on its way out with -1: the calls
\* made afterwards are only the Close calls of the roots opened before, the
\* failing root and the later roots are never walked, the later roots never
\* opened, the store never changes again, and every value written in the
\* hives walked before still holds what was written.
C14_RootOpenFailureEndsRun ==
    /\ [][FailedRootOpens # {} => store' = store]_vars
    /\ [](/\ \A j \in RootOpens :
                /\ Cardinality({j1 \in RootOpens : j1 <= j}) = trace[j].node
                /\ \A j1 \in 1..(j - 1) : HiveOf(trace[j1].node) < trace[j].node
          /\ \A j \in FailedRootOpens :
                /\ mainPc \in {"return", "exited"}
                /\ exitCode = -1
                /\ hive = trace[j].node
                /\ stack = <<>>
                /\ \A j2 \in (j + 1)..Len(trace) :
                      /\ trace[j2].op = "Close"
                      /\ trace[j2].node \in Hives /\ trace[j2].node < trace[j].node
                /\ \A k2 \in Hives :
                      /\ k2 >= trace[j].node => CallsOn("Iter", k2) = {}
                      /\ k2 > trace[j].node => CallsOn("Open", k2) = {}
                /\ \A j1 \in 1..(j - 1) :
                      (trace[j1].op = "Set" /\ trace[j1].res = "ERROR_SUCCESS") =>
                          LET vs == store[trace[j1].node]
                          IN vs[ValueIndex(vs, trace[j1].name)] =
                                Val(trace[j1].name, "REG_SZ", trace[j1].data))

\* the second root is denied: hive 1 keeps the rewrite of A's second value,
\* hive 2 is untouched, the first root is closed and main has returned -1
C14_Witness ==
    /\ mainPc = "exited" /\ exitCode = -1
    /\ \E j \in FailedRootOpens :
          /\ trace[j].node = 2 /\ trace[j].res = "ERROR_ACCESS_DENIED"
          /\ \E jc \in (j + 1)..Len(trace) : trace[jc].op = "Close" /\ trace[jc].node = 1
    /\ store[6][2].data = Replace(S_Two, FROM_NAME, TO_NAME)
    /\ store[9] = store0[9]

\* a call that enumerates, fetches or writes a value
IsValueCall(c) == c.op \in {"EnumValue", "Get", "Set"}

\* the calls that enumerate, fetch or write a value
ValueCalls == {j \in TraceIdx : IsValueCall(trace[j])}

RECURSIVE IsBelow(_, _)
\* node m lies strictly below node n
IsBelow(m, n) == Parent(m) # 0 /\ (Parent(m) = n \/ IsBelow(Parent(m), n))

\* the calls that start the loop over the values of a key
FirstValueCalls == {j \in TraceIdx : trace[j].op = "EnumValue" /\ trace[j].index = 0}

\* C15: a value of a node is enumerated, fetched or written only in the
\* loop over the values (every value call but the enumeration of ordinal 0
\* directly follows another value call through the same handle), and that
\* loop starts only when every child ordinal of the node (up to the subkey
\* count of its handle) has been enumerated; nothing is ever done below the
\* node afterwards: every call made in a child subtree, its writes and the
\* close of the child handle included, precedes every value call of the
\* node; and when a call aborts the walk of a child subtree, no value of
\* any node above it is ever enumerated, fetched or written.
C15_ChildrenBeforeValues ==
    /\ \A j \in TraceIdx :
          (IsValueCall(trace[j]) /\ ~(trace[j].op = "EnumValue" /\ trace[j].index = 0)) =>
              /\ j > 1
              /\ IsValueCall(trace[j - 1])
              /\ trace[j - 1].key = trace[j].key /\ trace[j - 1].node = trace[j].node
    /\ \A j \in FirstValueCalls :
          /\ \A i \in 0..(keys[trace[j].key].subkeyCount - 1) :
                \E je \in 1..(j - 1) :
                    /\ trace[je].op = "EnumKey" /\ trace[je].key = trace[j].key
                    /\ trace[je].index = i /\ trace[je].res = "ERROR_SUCCESS"
          /\ \A j2 \in (j + 1)..Len(trace) :
                /\ ~IsBelow(trace[j2].node, trace[j].node)
                /\ ~(trace[j2].op = "EnumKey" /\ trace[j2].key = trace[j].key)
    /\ \A j \in TraceIdx :
          Aborting(trace[j]) =>
             \A jv \in TraceIdx :
                IsValueCall(trace[jv]) => ~IsBelow(trace[j].node, trace[jv].node)

\* a value two levels down was rewritten and the handles below root 1
\* closed before the root's own value was rewritten
C15_Witness ==
    /\ \E j \in Succeeded("Set", 8) : \E j1 \in Succeeded("Set", 6) :
       \E j2 \in Succeeded("Set", 1) : \E jc \in CallsOn("Close", 7) :
          j < j1 /\ j1 < jc /\ jc < j2
    /\ \A jv \in CallsOn("EnumValue", 1) : \A n \in Subtree(1) \ {1} :
          \A jn \in CallsOn("Set", n) : jn < jv

\* C16: in every state of the run, aborted walks included, every node has
\* the values it started with, under the same names; a value that is not a
\* string is as it was; a string value holds its initial content when no
\* write to it has succeeded and Replace(initial content, target,
\* replacement) when one has (the initial content with every occurrence of
\* the target substituted, left to right, and no occurrence left), never
\* anything else; and no value is written more than once.
C16_NoPartialCorruption ==
    LET sets == {j \in TraceIdx : trace[j].op = "Set"}
    IN /\ \A n \in Nodes :
             /\ Len(store[n]) = Len(store0[n])
             /\ \A i \in 1..Len(store0[n]) :
                   LET v0 == store0[n][i]
                       v == store[n][i]
                   IN /\ v.name = v0.name
                      /\ v # v0 =>
                            /\ v0.type = "REG_SZ" /\ v.type = "REG_SZ"
                            /\ v.data = RefSubst(v0.data, FROM_NAME, TO_NAME, 0)
                            /\ ~Contains(v.data, FROM_NAME)
                            /\ \E j \in sets :
                                  /\ trace[j].node = n /\ trace[j].name = v0.name
                                  /\ trace[j].res = "ERROR_SUCCESS"
       /\ \A j \in sets :
             /\ trace[j].res = "ERROR_SUCCESS" =>
                   LET vs == store[trace[j].node]
                       i == ValueIndex(vs, trace[j].name)
                   IN i # 0 /\ vs[i] # store0[trace[j].node][i]
             /\ \A j2 \in sets :
                   (trace[j2].node = trace[j].node /\ trace[j2].name = trace[j].name)
                       => j2 = j

\* a walk aborted by a failed write: A's value with two occurrences holds
\* both substitutions, the value whose write failed holds its initial content
C16_Witness ==
    /\ WalkReturned(1, "false")
    /\ store[6][2].data = TO_NAME \o <<"\\", "d", "o", "c", "s", "\\">> \o TO_NAME \o <<"\\", "x">>
    /\ \E j \in CallsOnValue("Set", 1, "w") : trace[j].res = "ERROR_OTHER"
    /\ store[1][2] = Val("w", "REG_SZ", S_One)

\* the names of the values of a key, in the order of their ordinals
ValueNames(values) == [i \in 1..Len(values) |-> values[i].name]

\* C17: a step that changes the store is the successful write of the frame
\* on top: it changes one value of the node that frame walks, the one at
\* the frame's ordinal, whose name is the one enumerated and which was a
\* string containing the target; all other values and nodes, the number
\* of values and their names stay as they are. Every write, successful or
\* not, directly follows the successful fetch and that the successful
\* enumeration of the same value through the same handle, and the fetched
\* content contained the target; the calls made are opens, queries,
\* enumerations, fetches, writes and closes, so no node or value is created
\* or deleted.
C17_OnlyMatchingValuesAreWritten ==
    /\ [][store' # store =>
             /\ stack # <<>> /\ Top.pc = "set"
             /\ LET n == Holder.node
                    i == Top.i + 1
                IN /\ \A m \in Nodes \ {n} : store'[m] = store[m]
                   /\ ValueNames(store'[n]) = ValueNames(store[n])
                   /\ i <= Len(store[n])
                   /\ store[n][i].name = Top.name
                   /\ store[n][i].type = "REG_SZ"
                   /\ Contains(store[n][i].data, FROM_NAME)
                   /\ Top.data = store[n][i].data
                   /\ \A i2 \in 1..Len(store[n]) : i2 # i => store'[n][i2] = store[n][i2]
                   /\ store'[n][i] = Val(Top.name, "REG_SZ", Top.replaced)]_vars
    /\ [](/\ DOMAIN store = Nodes
          /\ \A n \in Nodes : ValueNames(store[n]) = ValueNames(store0[n])
          /\ \A j \in TraceIdx :
                /\ trace[j].op \in {"Open", "QueryInfo", "EnumKey", "Iter", "EnumValue",
                                    "Get", "Set", "Close"}
                /\ trace[j].op = "Set" =>
                      /\ j > 2
                      /\ trace[j - 1].op = "Get" /\ trace[j - 1].res = "ERROR_SUCCESS"
                      /\ trace[j - 2].op = "EnumValue" /\ trace[j - 2].res = "ERROR_SUCCESS"
                      /\ \A e \in {trace[j - 1], trace[j - 2]} :
                            /\ e.key = trace[j].key /\ e.node = trace[j].node
                            /\ e.index = trace[j].index
                      /\ trace[j - 1].name = trace[j].name
                      /\ keys[trace[j].key].node = trace[j].node
                      /\ LET v0 == store0[trace[j].node][trace[j].index + 1]
                         IN /\ v0.name = trace[j].name
                            /\ v0.type = "REG_SZ"
                            /\ Contains(v0.data, FROM_NAME)
                            /\ trace[j].data # v0.data)

\* the values of root 1 and root 3 that nearly spell the target were fetched
\* and left alone, and of A only the values holding the target were written
C17_Witness ==
    /\ Succeeded("Get", 1) # {} /\ CallsOnValue("Set", 1, "v") = {}
    /\ store[1][1] = Val("v", "REG_SZ", S_Case)
    /\ Succeeded("Get", 3) # {} /\ CallsOn("Set", 3) = {}
    /\ store[3] = <<Val("p", "REG_SZ", S_Near)>>
    /\ store0[6][1] = Val("p", "REG_SZ", S_Near)
    /\ store[6][1] = store0[6][1]
    /\ Succeeded("Set", 6) # {}
    /\ store[6][2] # store0[6][2]

\* the root RegKey objects that hold an open handle
OpenRoots == {id \in RootKeys : keys[id].alive /\ keys[id].isValidb}

\* C18 (as stated): at most one root handle is open at any time, and the
\* root of a hive is closed before the root of the next hive is opened.
C18_OneRootHandleAtATime ==
    /\ Cardinality(OpenRoots) <= 1
    /\ \A j \in RootOpens :
          \A id \in RootKeys :
             (keys[id].isValidb /\ keys[id].node < trace[j].node) =>
                 \E jc \in Closes(id) : jc < j

\* C18 (amended): a handle opened below a root is released as soon as the
\* walk of its subtree is over: none is open when iter has returned to main.
\* A root handle is a local of main and is retained until main returns:
\* before that every root that opened is still open and has not been
\* closed, so the roots of all hives reached so far are open together; when
\* main returns, also with -1, the roots are closed once each, after every
\* other call, the last opened first.
C18_RootHandlesHeldUntilReturn ==
    /\ stack = <<>> => OpenBelowRoot = {}
    /\ mainPc # "exited" =>
          /\ \A id \in RootKeys : keys[id].alive /\ Closes(id) = {}
          /\ Cardinality(OpenRoots) = Cardinality({j \in RootOpens : trace[j].res = "ERROR_SUCCESS"})
          /\ Cardinality(OpenRoots) \in {hive - 1, hive}
    /\ mainPc = "exited" =>
          /\ OpenRoots = {}
          /\ \A id \in RootKeys :
                keys[id].isValidb =>
                   /\ Cardinality(Closes(id)) = 1
                   /\ \A jc \in Closes(id) :
                         /\ \A j \in TraceIdx : trace[j].op # "Close" => j < jc
                         /\ \A id2 \in RootKeys :
                               (id2 > id /\ keys[id2].isValidb) =>
                                   \A jc2 \in Closes(id2) : jc2 < jc

\* all five roots were open together during the last walk and were closed
\* at the return of main, the root of hive 5 first and that of hive 1 last
C18_Witness ==
    /\ mainPc = "exited" /\ exitCode = 0
    /\ Len(trace) > NumHives
    /\ \A k \in Hives :
          LET c == trace[Len(trace) - k + 1]
          IN c.op = "Close" /\ c.node = k
    /\ \A k \in Hives : \A j \in CallsOn("Close", k) : \A j5 \in CallsOn("Iter", NumHives) :
          j5 < j

----------------------------------------------------------------------------
(* Termination of Replace *)

\* what is left to search: the part of value from pos on
Remaining == Len(rValue) - rPos

\* C19: with a non-empty needle every call of Replace reaches its break,
\* whatever the replacement: an iteration that substitutes leaves pos just
\* behind the inserted replacement, within the string, and the part of the
\* string still to be searched strictly shorter than before. With an empty
\* needle the call never reaches its break: in every iteration find
\* succeeds at pos itself.
C19_ReplaceTerminates ==
    /\ [](rNeedle # <<>> => <>(rPc = "done"))
    /\ [][(rPc = "loop" /\ rNeedle # <<>> /\ rValue' # rValue) \/
           (rPc = "loop" /\ rNeedle # <<>> /\ rPos' # rPos) =>
             /\ rPos' >= rPos + Len(rReplacement)
             /\ rPos' <= Len(rValue')
             /\ SubSeq(rValue', rPos' - Len(rReplacement) + 1, rPos') = rReplacement
             /\ Len(rValue') - rPos' < Remaining
             /\ Len(rValue') - rPos' >= 0]_vars
    /\ [](rNeedle = <<>> =>
             /\ rPc # "done"
             /\ rPc = "loop" =>
                   /\ rPos <= Len(rValue)
                   /\ Find(rValue, rNeedle, rPos) = rPos)

\* a replacement that is longer than the needle and contains it: every
\* occurrence was substituted once and the call is over
C19_Witness ==
    /\ rPc = "done"
    /\ rHaystack = <<"a", "a", "a">>
    /\ rNeedle = <<"a">>
    /\ rReplacement = <<"a", "a">>
    /\ rValue = <<"a", "a", "a", "a", "a", "a">>
    /\ rPos = 6

----------------------------------------------------------------------------
(* Running the program a second time on the store the first run left *)

\* the entry in the trace that separates the two runs
StartMark == Call("Start", 0, 0, 0, "", "ERROR_SUCCESS", <<>>)

\* the position of the start of the second run in the trace, 0 if none
SecondStart ==
    IF \E j \in TraceIdx : trace[j].op = "Start"
    THEN CHOOSE j \in TraceIdx : trace[j].op = "Start"
    ELSE 0

\* the process is started again: main begins anew, with count = 0 and no
\* RegKey objects, on the store as the first run left it
Rerun ==
    /\ mainPc = "exited"
    /\ SecondStart = 0
    /\ trace' = Append(trace, StartMark)
    /\ keys' = <<>>
    /\ stack' = <<>>
    /\ ret' = "none"
    /\ count' = 0
    /\ count0' = 0
    /\ mainPc' = "open"
    /\ hive' = 1
    /\ exitCode' = "none"
    /\ reported' = <<>>
    /\ UNCHANGED <<store, store0, faults, replaceVars>>

NextRerun == Next \/ Rerun

SpecRerun == Init /\ [][NextRerun]_vars

\* the calls of the first run and of the second run
FirstRun == IF SecondStart = 0 THEN TraceIdx ELSE 1..(SecondStart - 1)

SecondRun == IF SecondStart = 0 THEN {} ELSE (SecondStart + 1)..Len(trace)

\* the first run walked hive k and the walk returned true: iter was called
\* on the root and no call of the walk was one that makes iter return false
FirstWalkSucceeded(k) ==
    /\ SecondStart # 0
    /\ \E j \in FirstRun : trace[j].op = "Iter" /\ trace[j].node = k
    /\ \A j \in FirstRun : HiveOf(trace[j].node) = k => ~Aborting(trace[j])

\* no child was passed over in the first walk of hive k
NoSkippedChild(k) ==
    \A j \in FirstRun : HiveOf(trace[j].node) = k => ~BenignOpen(trace[j])

\* the second walk of hive k so far found no value holding the target, made
\* no write, and has not moved the counter
SecondWalkChangesNothing(k) ==
    /\ \A j \in SecondRun :
          HiveOf(trace[j].node) = k =>
             /\ trace[j].op # "Set"
             /\ (trace[j].op = "Get" /\ trace[j].res = "ERROR_SUCCESS") =>
                   ~Contains(store[trace[j].node][trace[j].index + 1].data, FROM_NAME)
    /\ (mainPc = "wait" /\ hive = k) => count = count0

\* C20 (as stated): after a walk of a root that returned success with no
\* skipped children, a second walk of the same root finds no value
\* containing the target, performs no write and leaves the counter as it is.
C20_SecondWalkChangesNothing ==
    \A k \in Hives :
        (FirstWalkSucceeded(k) /\ NoSkippedChild(k)) => SecondWalkChangesNothing(k)

\* the same after a first walk in which no call failed at all
C20_SecondWalkChangesNothingAfterCleanWalk ==
    \A k \in Hives :
        (/\ FirstWalkSucceeded(k)
         /\ \A j \in FirstRun : HiveOf(trace[j].node) = k => Ordinary(trace[j]))
            => SecondWalkChangesNothing(k)

\* both walks of hive 1 are over, the first rewrote values, the second
\* fetched them again
C20_Witness ==
    /\ FirstWalkSucceeded(1) /\ NoSkippedChild(1)
    /\ \A j \in FirstRun : HiveOf(trace[j].node) = 1 => Ordinary(trace[j])
    /\ \E j \in FirstRun : trace[j].op = "Set" /\ trace[j].node = 6
    /\ \E j \in SecondRun : trace[j].op = "Get" /\ trace[j].node = 6
    /\ WalkReturned(1, "true")

====
